---- MODULE Spec2Model ----
(***************************************************************************)
(* A model of RH_chimera_engine.py (the Chimera Engine of Ghost Zero).     *)
(*                                                                         *)
(* Numbers.  Heights (imaginary parts, t_search, t_loc, window) are        *)
(* integers counting tenths: 10.0 is 100, the step 0.2 is 2, the window    *)
(* 4.0 is 40.  Real parts and magnitudes are integers counting hundredths: *)
(* 0.52 is 52, 0.98 is 98, the threshold 0.25 is 25.  A projection height  *)
(* is kept multiplied by resolution, so that window * i / resolution is    *)
(* exact.  A character value exp(2 pi i e / (p-1)) is kept as its exponent *)
(* e in 0..p-2, and the complex zero as Zero.                              *)
(*                                                                         *)
(* The values of D(s), of the root finder and of the Z-analogue come from  *)
(* the numeric library: they are inputs, drawn from small sets.            *)
(***************************************************************************)
EXTENDS Integers, Sequences, FiniteSets, TLC

VARIABLES
    pc,             \* position in run_survey / __main__
    catalog_count,  \* run_survey: catalog_count
    subject,        \* run_survey: subject (a SyntheticZeta) or None
    ctor,           \* get_random_chimera: q, evens, odds, bucket_keys of the last call
    t_search,       \* run_survey: t_search
    found_monster,  \* run_survey: found_monster
    monster_s,      \* run_survey: monster_s
    visited,        \* the heights at which subject.eval(s_probe) was called in this hunt
    last_event,     \* what the last step met; for a refinement, with the root found
    records,        \* the rows record_specimen has written
    ts,             \* run_survey: ts
    zs,             \* run_survey: zs
    ghosts          \* run_survey: ghosts

vars == <<pc, catalog_count, subject, ctor, t_search, found_monster, monster_s,
          visited, last_event, records, ts, zs, ghosts>>

----------------------------------------------------------------------------
(* Laboratory configuration                                                *)

\* TARGET_GHOSTS is 1000 in the source; the model runs to a smaller target.
TARGET_GHOSTS == 1

\* SCAN_RANGE_PER_ZETA is 50.0 in the source; here in tenths, and smaller.
SCAN_RANGE_PER_ZETA == 6

MODULUS_POOL == <<7, 11, 13, 17, 19, 23, 29>>

\* The moduli the survey runs are explored for.  get_random_chimera itself is
\* explored for the whole pool under SpecChimera.
SurveyPool == {MODULUS_POOL[1]}

----------------------------------------------------------------------------
(* Math helpers: character factory                                         *)

Zero == -1

RECURSIVE PowMod(_, _, _)
\* val after i passes of "val = (val * g) % p", starting from val = 1
PowMod(g, i, p) == IF i = 0 THEN 1 ELSE (PowMod(g, i - 1, p) * g) % p

SetMin(S) == CHOOSE x \in S : \A y \in S : x <= y
SetMax(S) == CHOOSE x \in S : \A y \in S : x >= y

get_primitive_root(p) ==
    IF p = 2 THEN 1
    ELSE LET is_root(g) == Cardinality({PowMod(g, i, p) : i \in 1..(p - 1)}) = p - 1
             found == {g \in 2..(p - 1) : is_root(g)}
         IN  IF found = {} THEN 1 ELSE SetMin(found)

\* the dict ind of generate_char_table: a later write replaces an earlier one,
\* and ind[1] = 0 is written last; NoLog stands for "n not in ind"
NoLog == -1
DiscreteLog(p, g) ==
    [n \in 1..(p - 1) |->
        IF n = 1 THEN 0
        ELSE LET at == {i \in 1..(p - 1) : PowMod(g, i, p) = n}
             IN  IF at = {} THEN NoLog ELSE SetMax(at)]

generate_char_table(p, k) ==
    LET g == get_primitive_root(p)
        ind == DiscreteLog(p, g)
    IN  [n \in 0..(p - 1) |->
            IF n = 0 THEN Zero
            ELSE IF ind[n] # NoLog THEN (k * ind[n]) % (p - 1)
            ELSE Zero]

\* re(val) > 0 for val = exp(2 pi i e / m), or for val = 0
RePositive(e, m) == e # Zero /\ (4 * e < m \/ 4 * e > 3 * m)

check_parity(table) ==
    LET last == SetMax(DOMAIN table)     \* table[-1]
        val == table[last]
    IN  IF RePositive(val, last) THEN 1 ELSE -1

----------------------------------------------------------------------------
(* Mathematics core: the chimera                                           *)

SyntheticZeta(modulus, idx_a, table_a, idx_b, table_b) ==
    [q |-> modulus, idx_a |-> idx_a, idx_b |-> idx_b,
     table_a |-> table_a, table_b |-> table_b,
     id_str |-> <<"Q", modulus, ".k", idx_a, "+k", idx_b>>,
     a |-> IF check_parity(table_a) = 1 THEN 0 ELSE 1]

\* the k of "for k in range(1, q)", in the order the loop visits them
CharIndices(q) == [i \in 1..(q - 1) |-> i]

Range(f) == {f[x] : x \in DOMAIN f}

\* table_cache of get_random_chimera, for each modulus of the pool
table_cache ==
    [q \in Range(MODULUS_POOL) |->
        [k \in Range(CharIndices(q)) |-> generate_char_table(q, k)]]

IsEven(q, k) == check_parity(table_cache[q][k]) = 1
IsOdd(q, k) == check_parity(table_cache[q][k]) # 1

Evens(q) == SelectSeq(CharIndices(q), LAMBDA k : IsEven(q, k))
Odds(q) == SelectSeq(CharIndices(q), LAMBDA k : IsOdd(q, k))

\* a constructor that draws from all indices, whatever their parity
BucketAny(coin, evens, odds) == evens \o odds

\* coin is the outcome of random.random() > 0.5
BucketKeys(coin, evens, odds) ==
    LET first == IF coin /\ Len(evens) >= 2 THEN evens ELSE odds
    IN  IF Len(first) < 2
        THEN (IF Len(odds) >= 2 THEN odds ELSE evens)
        ELSE first

\* the outcomes of random.sample(keys, 2): two different positions of keys
\* (with fewer than two keys it raises, and there is no outcome)
Sample2(keys) ==
    {<<keys[ij[1]], keys[ij[2]]>> :
        ij \in {p \in (1..Len(keys)) \X (1..Len(keys)) : p[1] # p[2]}}

\* get_random_chimera once random.choice(MODULUS_POOL) gave q
get_random_chimera(q) ==
    \E coin \in BOOLEAN :
        LET evens == Evens(q)
            odds == Odds(q)
            bucket_keys == BucketKeys(coin, evens, odds)
        IN  \E kk \in Sample2(bucket_keys) :
                /\ subject' = <<SyntheticZeta(q, kk[1], table_cache[q][kk[1]],
                                                 kk[2], table_cache[q][kk[2]])>>
                /\ ctor' = <<[q |-> q, evens |-> evens, odds |-> odds,
                             bucket_keys |-> bucket_keys]>>

----------------------------------------------------------------------------
(* Protocol execution: run_survey                                          *)

start_t == 100
step == 2
threshold == 25
window == 40

\* resolution is 300 in the source; the model samples fewer heights.
resolution == 4

max_search == start_t + SCAN_RANGE_PER_ZETA

\* the magnitudes abs(subject.eval(s_probe)) can take, in hundredths
MagVals == {24, 25}

\* the roots mpmath.findroot can return
Roots == {[re |-> 52, im |-> 11], [re |-> 98, im |-> 11],
          [re |-> 53, im |-> -10], [re |-> 53, im |-> 11],
          [re |-> 97, im |-> -11]}

\* the samples of subject.Z_analogue the survey runs are explored for; the
\* projection alone is explored for all of ZVals under SpecProjection
SurveyZ == {-1, 1}

Abs(x) == IF x < 0 THEN -x ELSE x

\* a loop test that lets one more cycle run
LoopContinuesClosed(c) == c <= TARGET_GHOSTS

\* "while catalog_count < TARGET_GHOSTS"
LoopContinues(c) == c < TARGET_GHOSTS

\* a scan that also samples the end of the window
InWindowClosed(t) == t <= max_search

\* "while t_search < max_search"
InWindow(t) == t < max_search

\* "if val < 0.25"
IsCandidate(val) == val < threshold

\* an acceptance test with the bounds included
AcceptsClosed(rt) == 52 <= rt.re /\ rt.re <= 98 /\ Abs(rt.im) >= 10

\* "if 0.52 < r < 0.98 and abs(i) > 1.0"
Accepts(rt) == 52 < rt.re /\ rt.re < 98 /\ Abs(rt.im) > 10

\* a projection loop that counts step_i from 1
ProjectionHeightsShifted(t_loc) ==
    LET t_start_win == t_loc - window \div 2
    IN  [i \in 1..resolution |-> t_start_win * resolution + window * i]

\* ts of the projection loop, each height multiplied by resolution:
\* ti = t_start_win + (window * step_i / resolution), step_i = i - 1
ProjectionHeights(t_loc) ==
    LET t_start_win == t_loc - window \div 2
    IN  [i \in 1..resolution |-> t_start_win * resolution + window * (i - 1)]

\* a sign test that counts a zero sample as a crossing
SignChangeWeak(x, y) == x * y <= 0

\* "if zs[k] * zs[k+1] < 0"
SignChange(x, y) == x * y < 0

\* t_cross = ts[k] + frac * (ts[k+1] - ts[k]) with frac = |x| / (|x| + |y|),
\* kept as the fraction num / den
Interpolate(t0, t1, x, y) ==
    [num |-> t0 * (Abs(x) + Abs(y)) + Abs(x) * (t1 - t0), den |-> Abs(x) + Abs(y)]

\* the list ghosts, built by "for k in range(len(zs)-1)" from index k on
RECURSIVE GhostsFrom(_, _, _)
GhostsFrom(tt, zz, k) ==
    IF k > Len(zz) - 1 THEN <<>>
    ELSE (IF SignChange(zz[k], zz[k + 1])
          THEN <<Interpolate(tt[k], tt[k + 1], zz[k], zz[k + 1])>>
          ELSE <<>>) \o GhostsFrom(tt, zz, k + 1)

Ghosts(tt, zz) == GhostsFrom(tt, zz, 1)

\* a chain whose cluster branch starts one count late
ClassifyLate(num_ghosts) ==
    IF num_ghosts = 0 THEN <<"CLASS 0: BLINDNESS">>
    ELSE IF num_ghosts = 1 THEN <<"CLASS I: DISPLACEMENT">>
    ELSE IF num_ghosts > 3 THEN <<"CLASS ", num_ghosts, ": CLUSTER">>
    ELSE <<"CLASS ", num_ghosts, ": PAIRING">>

\* c_name, from "Unknown" through the if / elif chain
Classify(num_ghosts) ==
    IF num_ghosts = 0 THEN <<"CLASS 0: BLINDNESS">>
    ELSE IF num_ghosts = 1 THEN <<"CLASS I: DISPLACEMENT">>
    ELSE IF num_ghosts >= 3 THEN <<"CLASS ", num_ghosts, ": CLUSTER">>
    ELSE <<"CLASS ", num_ghosts, ": PAIRING">>

\* the arguments of record_specimen; the timestamp and the rendering of the
\* numbers as text belong to the journal and are not kept
Specimen(modulus, z_id, s0, dev, num, c_name) ==
    [Modulus |-> modulus, Zeta_ID |-> z_id, s0 |-> s0,
     Deviation |-> dev, Ghost_Count |-> num, Class_Name |-> c_name]

----------------------------------------------------------------------------
(* The steps of run_survey                                                 *)

Init ==
    /\ pc = "loop"
    /\ catalog_count = 0
    /\ subject = <<>>
    /\ ctor = <<>>
    /\ t_search = start_t
    /\ found_monster = FALSE
    /\ monster_s = <<>>
    /\ visited = <<>>
    /\ last_event = <<"start">>
    /\ records = <<>>
    /\ ts = <<>>
    /\ zs = <<>>
    /\ ghosts = <<>>

\* lines 234-248: the loop test holds, a subject is made, the hunt is set up
BeginCycle ==
    /\ pc = "loop"
    /\ LoopContinues(catalog_count)
    /\ \E q \in SurveyPool : get_random_chimera(q)
    /\ found_monster' = FALSE
    /\ monster_s' = <<>>
    /\ t_search' = start_t
    /\ visited' = <<>>
    /\ last_event' = <<"synthesis">>
    /\ pc' = "scan"
    /\ UNCHANGED <<catalog_count, records, ts, zs, ghosts>>

\* run_survey is left, by return or by an exception: its locals are gone, the
\* rows written stay
Leave(how, event) ==
    /\ pc' = how
    /\ last_event' = event
    /\ catalog_count' = 0
    /\ subject' = <<>>
    /\ ctor' = <<>>
    /\ t_search' = start_t
    /\ found_monster' = FALSE
    /\ monster_s' = <<>>
    /\ visited' = <<>>
    /\ UNCHANGED <<records, ts, zs, ghosts>>

\* line 234: the loop test fails, run_survey returns
EndSurvey ==
    /\ pc = "loop"
    /\ ~LoopContinues(catalog_count)
    /\ Leave("done", <<"return">>)

\* one pass of the scan loop that ends at "t_search += step"
ScanAdvance(event) ==
    /\ visited' = Append(visited, t_search)
    /\ last_event' = event
    /\ t_search' = t_search + step
    /\ UNCHANGED <<pc, catalog_count, subject, ctor, found_monster, monster_s,
                   records, ts, zs, ghosts>>

\* lines 250-255, 268: the magnitude is not below the threshold
ScanAbove ==
    /\ pc = "scan"
    /\ InWindow(t_search)
    /\ \E val \in MagVals : ~IsCandidate(val)
    /\ ScanAdvance(<<"above">>)

\* a scan without the try block: the numeric error leaves run_survey
ScanEvalErrorAborts ==
    /\ pc = "scan"
    /\ InWindow(t_search)
    /\ visited' = Append(visited, t_search)
    /\ last_event' = <<"eval_error">>
    /\ pc' = "crashed"
    /\ UNCHANGED <<catalog_count, subject, ctor, t_search, found_monster, monster_s,
                   records, ts, zs, ghosts>>

\* lines 254, 266-268: subject.eval raises a numeric error
ScanEvalError ==
    /\ pc = "scan"
    /\ InWindow(t_search)
    /\ ScanAdvance(<<"eval_error">>)

\* lines 257, 266-268: mpmath.findroot raises a numeric error
ScanRefineError ==
    /\ pc = "scan"
    /\ InWindow(t_search)
    /\ \E val \in MagVals : IsCandidate(val)
    /\ ScanAdvance(<<"refine_error">>)

\* lines 257-262, 268: the refined root does not meet the criteria
ScanRejected ==
    /\ pc = "scan"
    /\ InWindow(t_search)
    /\ \E val \in MagVals : IsCandidate(val)
    /\ \E rt \in Roots :
        /\ ~Accepts(rt)
        /\ ScanAdvance(<<"rejected", rt>>)

\* lines 257-265: the refined root meets the criteria, the scan breaks;
\* line 270: found_monster holds, the cycle goes on to the analysis
ScanAccepted ==
    /\ pc = "scan"
    /\ InWindow(t_search)
    /\ \E val \in MagVals : IsCandidate(val)
    /\ \E rt \in Roots :
        /\ Accepts(rt)
        /\ monster_s' = <<rt>>
        /\ last_event' = <<"accepted", rt>>
    /\ found_monster' = TRUE
    /\ visited' = Append(visited, t_search)
    /\ pc' = "analysis"
    /\ UNCHANGED <<catalog_count, subject, ctor, t_search, records, ts, zs, ghosts>>

\* lines 252-268: a KeyboardInterrupt raised inside the try block is caught by
\* the bare "except:" like any other exception
ScanInterrupted ==
    /\ pc = "scan"
    /\ InWindow(t_search)
    /\ ScanAdvance(<<"KeyboardInterrupt">>)

\* lines 250, 270-272: the window is exhausted, nothing was found
Recycle ==
    /\ pc = "scan"
    /\ ~InWindow(t_search)
    /\ ~found_monster
    /\ last_event' = <<"clean">>
    /\ pc' = "loop"
    /\ UNCHANGED <<catalog_count, subject, ctor, t_search, found_monster, monster_s,
                   visited, records, ts, zs, ghosts>>

\* lines 275-284
Capture ==
    /\ pc = "analysis"
    /\ catalog_count' = catalog_count + 1
    /\ last_event' = <<"capture">>
    /\ pc' = "project"
    /\ UNCHANGED <<subject, ctor, t_search, found_monster, monster_s, visited,
                   records, ts, zs, ghosts>>

\* lines 286-325: projection, classification and the record.  ts, zs and ghosts
\* are dead once the record is written and are not kept.
ProjectAndRecord ==
    /\ pc = "project"
    /\ \E zz \in [1..resolution -> SurveyZ] :
        LET s0 == monster_s[1]
            dev == s0.re - 50
            t_loc == s0.im
            num_ghosts == Len(Ghosts(ProjectionHeights(t_loc), zz))
        IN  records' = Append(records,
                Specimen(subject[1].q, subject[1].id_str, s0, dev, num_ghosts,
                         Classify(num_ghosts)))
    /\ last_event' = <<"recorded">>
    /\ pc' = "loop"
    /\ UNCHANGED <<catalog_count, subject, ctor, t_search, found_monster, monster_s,
                   visited, ts, zs, ghosts>>

\* lines 327-331: a KeyboardInterrupt raised outside the try block of the scan
\* leaves run_survey and is caught in __main__
Halt ==
    /\ pc \in {"loop", "scan", "analysis", "project"}
    /\ Leave("halted", <<"KeyboardInterrupt">>)

Next ==
    \/ BeginCycle
    \/ EndSurvey
    \/ ScanAbove
    \/ ScanEvalError
    \/ ScanRefineError
    \/ ScanRejected
    \/ ScanAccepted
    \/ ScanInterrupted
    \/ Recycle
    \/ Capture
    \/ ProjectAndRecord
    \/ Halt

Spec == Init /\ [][Next]_vars

----------------------------------------------------------------------------
(* get_random_chimera alone, for every modulus of the pool                 *)

\* one call, from the state before the first cycle
CallGetRandomChimera ==
    /\ subject = <<>>
    /\ \E q \in Range(MODULUS_POOL) : get_random_chimera(q)
    /\ UNCHANGED <<pc, catalog_count, t_search, found_monster, monster_s,
                   visited, last_event, records, ts, zs, ghosts>>

SpecChimera == Init /\ [][CallGetRandomChimera]_vars

----------------------------------------------------------------------------
(* The projection and the classification alone, on every sample sequence   *)

\* the largest magnitude of a sample of the Z-analogue
MaxZ == 2
ZVals == (-MaxZ)..MaxZ

\* the state after Capture, for a hunt that accepted a root at its first height
InitProjection ==
    /\ pc = "project"
    /\ catalog_count = 1
    /\ \E q \in SurveyPool :
        /\ subject = <<SyntheticZeta(q, Odds(q)[1], table_cache[q][Odds(q)[1]],
                                        Odds(q)[2], table_cache[q][Odds(q)[2]])>>
        /\ ctor = <<[q |-> q, evens |-> Evens(q), odds |-> Odds(q),
                     bucket_keys |-> Odds(q)]>>
    /\ t_search = start_t
    /\ found_monster = TRUE
    /\ monster_s \in {<<rt>> : rt \in {r \in Roots : Accepts(r)}}
    /\ visited = <<start_t>>
    /\ last_event = <<"capture">>
    /\ records = <<>>
    /\ ts = <<>>
    /\ zs = <<>>
    /\ ghosts = <<>>

\* lines 286-306: the samples and the crossings
Project ==
    /\ pc = "project"
    /\ \E zz \in [1..resolution -> ZVals] :
        LET tt == ProjectionHeights(monster_s[1].im)
        IN  /\ ts' = tt
            /\ zs' = zz
            /\ ghosts' = Ghosts(tt, zz)
    /\ last_event' = <<"projected">>
    /\ pc' = "classify"
    /\ UNCHANGED <<catalog_count, subject, ctor, t_search, found_monster, monster_s,
                   visited, records>>

\* lines 306-325: the class and the record
ClassifyAndRecord ==
    /\ pc = "classify"
    /\ LET s0 == monster_s[1]
           num_ghosts == Len(ghosts)
       IN  records' = Append(records,
               Specimen(subject[1].q, subject[1].id_str, s0, s0.re - 50, num_ghosts,
                        Classify(num_ghosts)))
    /\ last_event' = <<"recorded">>
    /\ pc' = "loop"
    /\ UNCHANGED <<catalog_count, subject, ctor, t_search, found_monster, monster_s,
                   visited, ts, zs, ghosts>>

NextProjection == Project \/ ClassifyAndRecord

SpecProjection == InitProjection /\ [][NextProjection]_vars

----------------------------------------------------------------------------
(* Properties                                                              *)

\* the root lies inside the acceptance bounds
InBounds(rt) == rt.re > 52 /\ rt.re < 98 /\ (rt.im > 10 \/ rt.im < -10)

\* the root lies on one of the acceptance bounds
OnBound(rt) == rt.re = 52 \/ rt.re = 98 \/ rt.im = 10 \/ rt.im = -10

\* the step is a pass of the scan loop that refined a candidate
RefinedStep ==
    /\ visited' = Append(visited, t_search)
    /\ last_event'[1] \in {"rejected", "accepted"}

Samples(n) == [i \in 1..n |-> start_t + (i - 1) * step]

\* the number of heights t0 + k * step below t0 + range
WindowCount == (SCAN_RANGE_PER_ZETA + step - 1) \div step

\* C2: the scan visits t0, t0 + step, ... below t0 + range once each in
\* increasing order; it stops at the first accepted root and evaluates no later
\* height; a scan without an accepted root visits the whole window, reports no
\* anomaly, writes no record, and the caller then constructs a new chimera.
C2_ScanStopsOrExhausts ==
    /\ [](/\ visited = Samples(Len(visited))
          /\ \A i \in 1..Len(visited) : visited[i] < start_t + SCAN_RANGE_PER_ZETA
          /\ pc \in {"analysis", "project"} =>
                found_monster /\ visited # <<>> /\ visited[Len(visited)] = t_search)
    /\ [][/\ (found_monster' /\ ~found_monster) =>
                pc' = "analysis" /\ visited' = Append(visited, t_search)
          /\ found_monster => (visited' = visited \/ visited' = <<>>)
          /\ (pc = "scan" /\ pc' = "loop") =>
                /\ visited = Samples(WindowCount)
                /\ ~found_monster
                /\ last_event' = <<"clean">>
                /\ records' = records
                /\ catalog_count' = catalog_count
          /\ (pc = "loop" /\ last_event = <<"clean">> /\ pc' # "halted") =>
                /\ pc' = "scan"
                /\ last_event' = <<"synthesis">>
                /\ subject' # <<>>
                /\ visited' = <<>>]_vars

\* the whole window was visited without an accepted root and the chimera is
\* about to be replaced
C2_Witness ==
    /\ pc = "loop"
    /\ last_event = <<"clean">>
    /\ Len(visited) = WindowCount
    /\ WindowCount >= 2
    /\ records = <<>>

\* the step is a pass of the scan loop in which eval or findroot raised
NumericFailureStep ==
    /\ visited' = Append(visited, t_search)
    /\ last_event' \in {<<"eval_error">>, <<"refine_error">>}

\* C3: a numeric failure at a sample height is caught for that sample only: the
\* scan advances by one step, the run goes on, and the chimera, the anomaly count
\* and the records are unchanged.
C3_FailureSkipsSample ==
    [][NumericFailureStep =>
            /\ pc' = "scan"
            /\ t_search' = t_search + step
            /\ found_monster' = found_monster
            /\ monster_s' = monster_s
            /\ subject' = subject
            /\ catalog_count' = catalog_count
            /\ records' = records]_vars

\* the refinement failed at the second height and the scan stands at the third
C3_Witness ==
    /\ pc = "scan"
    /\ last_event = <<"refine_error">>
    /\ visited = <<start_t, start_t + step>>
    /\ t_search = start_t + 2 * step

\* C4: a KeyboardInterrupt delivered at any point of a run, the scan loop
\* included, terminates the run.
C4_InterruptTerminates == last_event = <<"KeyboardInterrupt">> => pc = "halted"

\* C5: the class of every record is given by its crossing count n: 0 BLINDNESS,
\* 1 DISPLACEMENT, 2 PAIRING, 3 and more CLUSTER with n in the label; never
\* "Unknown"; and Ghost_Count is the number of crossings found.
C5_LabelFollowsCount ==
    /\ \A i \in 1..Len(records) :
        LET n == records[i].Ghost_Count
            c == records[i].Class_Name
        IN  /\ n >= 0
            /\ c # <<"Unknown">>
            /\ n = 0 => c = <<"CLASS 0: BLINDNESS">>
            /\ n = 1 => c = <<"CLASS I: DISPLACEMENT">>
            /\ n = 2 => c = <<"CLASS ", 2, ": PAIRING">>
            /\ n >= 3 => c = <<"CLASS ", n, ": CLUSTER">>
    /\ pc = "loop" /\ records # <<>> =>
            records[Len(records)].Ghost_Count = Len(ghosts)

\* a record of three crossings, a cluster
C5_Witness ==
    /\ pc = "loop"
    /\ Len(records) = 1
    /\ records[1].Ghost_Count = 3
    /\ Len(ghosts) = 3

\* chi(q - 1) of a table: the exponent 0 is the value 1, (q - 1) / 2 is -1
ChiMinusOne(table, q) == table[q - 1]

\* C6: the chimera returned has k1 # k2 and two characters of the same parity,
\* so the shift a computed from table_a is the one table_b would give.
C6_SameParityDistinct ==
    subject # <<>> =>
        LET c == subject[1]
            ea == ChiMinusOne(c.table_a, c.q)
            eb == ChiMinusOne(c.table_b, c.q)
        IN  /\ c.idx_a # c.idx_b
            /\ {ea, eb} \subseteq {0, (c.q - 1) \div 2}
            /\ ea = eb
            /\ c.a = (IF eb = 0 THEN 0 ELSE 1)

\* an odd chimera of the largest modulus of the pool
C6_Witness ==
    /\ subject # <<>>
    /\ subject[1].q = MODULUS_POOL[Len(MODULUS_POOL)]
    /\ subject[1].a = 1
    /\ subject[1].idx_a > subject[1].idx_b

\* C7: every index placed in a bucket, and both indices of the chimera returned,
\* lie in [1, q - 1).
C7_IndicesBelowQMinusOne ==
    subject # <<>> =>
        \A k \in Range(ctor[1].evens) \cup Range(ctor[1].odds)
                 \cup {subject[1].idx_a, subject[1].idx_b} :
            1 <= k /\ k < subject[1].q - 1

\* the indices k of the adjacent pairs (k, k + 1) of zs with samples of opposite
\* strict sign, in increasing order
CrossingPairs ==
    SelectSeq([k \in 1..(Len(zs) - 1) |-> k],
              LAMBDA k : (zs[k] < 0 /\ zs[k + 1] > 0) \/ (zs[k] > 0 /\ zs[k + 1] < 0))

Centre == monster_s[1].im * resolution
WindowStart == (monster_s[1].im - window \div 2) * resolution
WindowEnd == (monster_s[1].im + window \div 2) * resolution

\* C9 as stated: the resolution heights are evenly spaced, start at
\* t_loc - window/2, are symmetric about t_loc, and end at t_loc + window/2.
C9_SymmetricSamples ==
    pc = "classify" =>
        /\ Len(ts) = resolution
        /\ ts[1] = WindowStart
        /\ \A i \in 1..(resolution - 1) : ts[i + 1] - ts[i] = ts[2] - ts[1]
        /\ \A i \in 1..resolution : \E j \in 1..resolution :
                ts[i] - Centre = Centre - ts[j]
        /\ ts[resolution] = WindowEnd

\* C9, amended: the resolution heights are t_loc - window/2 + i * window /
\* resolution for i = 0 .. resolution - 1: evenly spaced by window / resolution,
\* the first at t_loc - window/2, the last at t_loc + window/2 - window /
\* resolution, all in [t_loc - window/2, t_loc + window/2).
C9_HalfOpenSamples ==
    pc = "classify" =>
        /\ Len(ts) = resolution
        /\ ts[1] = WindowStart
        /\ \A i \in 1..(resolution - 1) : ts[i + 1] - ts[i] = window
        /\ ts[resolution] = WindowEnd - window
        /\ \A i \in 1..resolution : WindowStart <= ts[i] /\ ts[i] < WindowEnd

\* a projection around a root of negative height
C9_Witness ==
    /\ pc = "classify"
    /\ monster_s[1].im < 0
    /\ Len(ts) = resolution
    /\ ts[resolution] < Centre + (window \div 2) * resolution

====
